---- MODULE Spec2Model ----
(***************************************************************************)
(* Model of pygmtsar/SBAS_geocode.py: the two geocoding index matrices     *)
(* (intf_ra2ll, intf_ll2ra), their persistence, and the two resampling     *)
(* operations that apply them.                                             *)
(*                                                                         *)
(* Conventions.                                                            *)
(*  - Coordinates (azimuth, range, grid origin, cell size) are integers.   *)
(*    A cell size of 2 makes (azi - ymin)/dy take half-integer values, so  *)
(*    numpy's round-half-to-even is exercised.                             *)
(*  - A TransformDataset cell without radar coordinates (NaN azi/rng) is a *)
(*    point with valid = FALSE.                                            *)
(*  - The geographic raster is one row of N cells, chunked along lon; a    *)
(*    cell is <<0, k>>, a block is <<0, b>>, and idx of cell k is k.       *)
(*  - np.uint32 is modelled with IndexBits bits; arithmetic on the index   *)
(*    type is taken modulo 2^IndexBits, as numpy does modulo 2^32, and     *)
(*    NoIndex is the largest value of the type.                            *)
(***************************************************************************)
EXTENDS Integers, Sequences, FiniteSets, TLC

\* ------------------------------------------------------------------ bounds
\* Width of the index type (np.uint32, scaled).
IndexBits == 5
\* Largest azimuth coordinate of a TransformDataset point in SpecRa2ll.
MaxCoord == 8
\* Largest value of self.chunksize.
MaxChunk == 3

Modulus == 2 ^ IndexBits
\* self.noindex: the maximum value of the unsigned index type.
NoIndex == Modulus - 1
\* np.nan in a resampled grid; data values are naturals, so no layer holds it.
NaN == -1

\* ----------------------------------------------------------------- helpers
Min(S) == CHOOSE v \in S : \A w \in S : v <= w
Max(S) == CHOOSE v \in S : \A w \in S : v >= w

RECURSIVE SumTo(_, _)
\* Sum of the first i lengths of a chunk tuple.
SumTo(p, i) == IF i = 0 THEN 0 ELSE p[i] + SumTo(p, i - 1)

\* Index range (0-based) covered by chunk i (1-based) of chunk tuple p.
ChunkRange(p, i) == SumTo(p, i - 1) .. (SumTo(p, i) - 1)

\* dask's regular chunking of an axis of length n with chunk size c.
Rechunk(n, c) ==
    [i \in 1..((n + c - 1) \div c) |-> IF i * c <= n THEN c ELSE n - (i - 1) * c]

\* numpy's round() of the rational n/d (d > 0): halves go to the even neighbour.
RoundHalfEven(n, d) ==
    LET q == n \div d
        r == n - q * d
    IN  IF 2 * r < d THEN q
        ELSE IF 2 * r > d THEN q + 1
        ELSE IF q % 2 = 0 THEN q ELSE q + 1

\* astype(np.uint32) of an integral float.
AsUint(v) == v % Modulus

EmptyFn == [c \in {} |-> 0]

VARIABLES
    intf_grid,   \* the RadarGrid footprint: [ny, nx, y0, dy, x0, dx, chunks]
    trans_dat,   \* the TransformDataset: [pts, chunks]
    chunksize,   \* self.chunksize
    file_ra2ll,  \* the NetCDF artifact 'intf_ra2ll'
    file_ll2ra,  \* the NetCDF artifact 'intf_ll2ra'
    pc,          \* where the calling thread is
    tasks,       \* the chunk tasks of the graph being persisted
    persisted,   \* TransformDataset blocks computed by .persist()
    call,        \* the operation called last and its arguments
    result,      \* what that operation returned or raised
    ready,       \* the matrices persisted and readable
    prior        \* history: each artifact as the last non-interactive build found it

vars == <<intf_grid, trans_dat, chunksize, file_ra2ll, file_ll2ra, pc, tasks,
          persisted, call, result, ready, prior>>

\* ------------------------------------------------------------ coordinates
\* intf_grid.y.values / intf_grid.x.values
YCoord(g, i) == g.y0 + i * g.dy
XCoord(g, j) == g.x0 + j * g.dx

\* Cells of the radar grid.
RadarCells(g) == {<<i, j>> : i \in 0..(g.ny - 1), j \in 0..(g.nx - 1)}

\* Cells of the geographic raster and of one of its blocks (b is 0-based).
GeoCells(td) == {<<0, k>> : k \in 0..(Len(td.pts) - 1)}
BlockIds(td) == {<<0, b>> : b \in 0..(Len(td.chunks) - 1)}
BlockCells(td, blk) == {<<0, k>> : k \in ChunkRange(td.chunks, blk[2] + 1)}
PointAt(td, cell) == td.pts[cell[2] + 1]

\* ---------------------------------------------------------------- ra2ll
\* y index of a TransformDataset point on the radar grid, or noindex.
trans_yidx(p, g) ==
    IF ~p.valid THEN NoIndex
    ELSE LET v == RoundHalfEven(p.azi - g.y0, g.dy)
         IN  IF v >= 0 /\ v < g.ny THEN AsUint(v) ELSE NoIndex

\* x index of a TransformDataset point on the radar grid, or noindex.
trans_xidx(p, g) ==
    IF ~p.valid THEN NoIndex
    ELSE LET v == RoundHalfEven(p.rng - g.x0, g.dx)
         IN  IF v >= 0 /\ v < g.nx THEN AsUint(v) ELSE NoIndex

\* One cell of matrix_ll (uint32 arithmetic).
matrix_ll_cell(p, g) ==
    IF trans_yidx(p, g) = NoIndex \/ trans_xidx(p, g) = NoIndex
    THEN NoIndex
    ELSE (trans_yidx(p, g) * g.nx + trans_xidx(p, g)) % Modulus

\* matrix_ll: the lazy matrix on the geographic raster.
matrix_ll(td, g) == [cell \in GeoCells(td) |-> matrix_ll_cell(PointAt(td, cell), g)]

\* ------------------------------------------------------------ persistence
\* A NetCDF artifact: whether the file exists and the chunks written to it;
\* old marks chunk data that a previous version of the file held.
AbsentFile == [exists |-> FALSE, chunks |-> EmptyFn]
NewFile == [exists |-> TRUE, chunks |-> EmptyFn]
\* An artifact left by an earlier run on another scene.
PriorFile ==
    [exists |-> TRUE,
     chunks |-> (<<0, 0>> :> [val |-> (<<0, 0>> :> 0), old |-> FALSE])
                @@ (<<0, 9>> :> [val |-> (<<0, 9>> :> 0), old |-> FALSE])]

\* Faulty variant of remove_existing: the previous artifact is left in place.
keep_existing(file) == file

\* if os.path.exists(filename): os.remove(filename)
remove_existing(file) == IF file.exists THEN AbsentFile ELSE file

\* to_netcdf(..., compute=False): the file is created, no chunk is written yet.
\* Opened over a file that is still there, the chunks it held stay in it.
to_netcdf(file) ==
    IF file.exists
    THEN [exists |-> TRUE,
          chunks |-> [c \in DOMAIN file.chunks |->
                        [val |-> file.chunks[c].val, old |-> TRUE]]]
    ELSE NewFile

\* One chunk of the graph stored into the file.
write_chunk(file, c, val) ==
    [file EXCEPT !.chunks = (c :> [val |-> val, old |-> FALSE]) @@ @]

\* open_grids(None, name): the matrix read back from the artifact.
open_matrix(file) ==
    LET cells == UNION {DOMAIN file.chunks[c].val : c \in DOMAIN file.chunks}
    IN  [cell \in cells |->
            LET at == CHOOSE c \in DOMAIN file.chunks : cell \in DOMAIN file.chunks[c].val
            IN  file.chunks[at].val[cell]]

NoGrids == [dims |-> {}, layers |-> <<>>, blocks |-> <<>>]
TodoTask == [st |-> "todo", blocks |-> <<>>]
DoneTask == [st |-> "done", blocks |-> <<>>]

\* The block of matrix_ll one chunk task computes and stores.
matrix_ll_block(td, g, blk) ==
    [cell \in BlockCells(td, blk) |-> matrix_ll(td, g)[cell]]

\* intf_ra2ll_matrix_parallel(intf_grid, interactive): intf_ra2ll_matrix builds the
\* lazy matrix; interactive returns it, otherwise the previous artifact is removed,
\* the file is created and the graph is handed to dask.persist.
intf_ra2ll_matrix_parallel(interactive) ==
    /\ pc = "idle"
    /\ call' = [op |-> "intf_ra2ll_matrix_parallel", interactive |-> interactive,
                grids |-> NoGrids]
    /\ IF interactive
       THEN /\ result' = [kind |-> "lazy", matrix |-> matrix_ll(trans_dat, intf_grid)]
            /\ UNCHANGED <<file_ra2ll, pc, tasks, ready, prior>>
       ELSE /\ file_ra2ll' = to_netcdf(remove_existing(file_ra2ll))
            /\ prior' = [prior EXCEPT !.ra2ll = file_ra2ll]
            /\ tasks' = [blk \in BlockIds(trans_dat) |-> TodoTask]
            /\ pc' = "persist_ra2ll"
            /\ ready' = ready \ {"intf_ra2ll"}
            /\ result' = [kind |-> "running"]
    /\ UNCHANGED <<intf_grid, trans_dat, chunksize, file_ll2ra, persisted>>

\* One chunk task of the ra2ll graph: compute the block and store it.
ra2ll_chunk_task(blk) ==
    /\ pc = "persist_ra2ll"
    /\ tasks[blk].st = "todo"
    /\ file_ra2ll' = write_chunk(file_ra2ll, blk, matrix_ll_block(trans_dat, intf_grid, blk))
    /\ tasks' = [tasks EXCEPT ![blk] = DoneTask]
    /\ UNCHANGED <<intf_grid, trans_dat, chunksize, file_ll2ra, pc, persisted,
                   call, result, ready, prior>>

\* tqdm_dask(dask.persist(delayed)): every task of the graph has finished.
graph_completed(t) == \A c \in DOMAIN t : t[c].st = "done"

\* tqdm_dask(dask.persist(delayed), desc='Build ra2ll Transform') returns.
ra2ll_persist_return ==
    /\ pc = "persist_ra2ll"
    /\ graph_completed(tasks)
    /\ pc' = "idle"
    /\ result' = [kind |-> "persisted"]
    /\ ready' = ready \cup {"intf_ra2ll"}
    /\ UNCHANGED <<intf_grid, trans_dat, chunksize, file_ra2ll, file_ll2ra, tasks,
                   persisted, call, prior>>

\* ---------------------------------------------------------------- ll2ra
\* Cumulative ends of a chunk tuple.
ChunkEnds(p) == {SumTo(p, i) : i \in 1..Len(p)}

\* The chunk tuple with the given set of cumulative ends.
FromEnds(E) ==
    LET s == CHOOSE t \in [1..Cardinality(E) -> E] :
                 \A i, j \in 1..Cardinality(E) : i < j => t[i] < t[j]
    IN  [i \in 1..Cardinality(E) |-> IF i = 1 THEN s[1] ELSE s[i] - s[i - 1]]

\* xr.unify_chunks on one axis: the common refinement of the chunkings.
unify_axis(p, q) == FromEnds(ChunkEnds(p) \cup ChunkEnds(q))

\* azis.chunks (= rngs.chunks) after xr.unify_chunks(intf_grid, azis, rngs);
\* azis and rngs come in as one chunk. An intf_grid that is not a dask array
\* (chunks is None, modelled <<>>) takes no part.
unify_chunks(g) ==
    IF g.chunks = <<>> THEN <<<<g.ny>>, <<g.nx>>>>
    ELSE <<unify_axis(g.chunks[1], <<g.ny>>), unify_axis(g.chunks[2], <<g.nx>>)>>

\* matrix_ra.chunks: azis.chunk(self.chunksize) through apply_ufunc.
matrix_ra_chunks(g, c) == <<Rechunk(g.ny, c), Rechunk(g.nx, c)>>

\* Faulty variant of chunks_equal: the assertions are compiled away.
chunks_unchecked(a, b) == TRUE

\* assert intf_grid.chunks == <chunks>
chunks_equal(a, b) == a = b

\* The chunks (0-based ids) of a 2-D chunking and the cells of one of them.
ChunkIds(ch) == {<<cy, cx>> : cy \in 0..(Len(ch[1]) - 1), cx \in 0..(Len(ch[2]) - 1)}
ChunkRows(ch, c) == ChunkRange(ch[1], c[1] + 1)
ChunkCols(ch, c) == ChunkRange(ch[2], c[2] + 1)
ChunkCells(ch, c) == {<<i, j>> : i \in ChunkRows(ch, c), j \in ChunkCols(ch, c)}

\* get_trans_dat_blocks_extents(): one row per block,
\* <<blockRow, blockCol, azimuthMin, azimuthMax, rangeMin, rangeMax>>.
trans_blocks_extents(td) ==
    [k \in 1..Len(td.chunks) |->
        LET ps == {PointAt(td, cell) : cell \in BlockCells(td, <<0, k - 1>>)}
        IN  <<0, k - 1,
              Min({p.azi : p \in ps}), Max({p.azi : p \in ps}),
              Min({p.rng : p \in ps}), Max({p.rng : p \in ps})>>]

\* ymask & xmask for one row of the extents table (columns are 0-based in the
\* source: [:,3] is row[4] here).
block_selected(row, ymin, ymax, xmin, xmax) ==
    /\ row[4] >= ymin - 1 /\ row[3] <= ymax + 1
    /\ row[6] >= xmin - 1 /\ row[5] <= xmax + 1

\* blocks[:,:2]: the (iy, ix) of the blocks selected for a chunk of the radar grid.
candidate_blocks(td, g, ch, c) ==
    LET ymin == Min({YCoord(g, i) : i \in ChunkRows(ch, c)})
        ymax == Max({YCoord(g, i) : i \in ChunkRows(ch, c)})
        xmin == Min({XCoord(g, j) : j \in ChunkCols(ch, c)})
        xmax == Max({XCoord(g, j) : j \in ChunkCols(ch, c)})
        rows == SelectSeq(trans_blocks_extents(td),
                          LAMBDA row : block_selected(row, ymin, ymax, xmin, xmax))
    IN  [k \in 1..Len(rows) |-> <<rows[k][1], rows[k][2]>>]

\* The blocks of a sequence that a set does not hold yet, in raster order.
RECURSIVE SeqOfBlocks(_)
SeqOfBlocks(S) ==
    IF S = {} THEN <<>>
    ELSE LET b == CHOOSE x \in S : \A y \in S : x[2] <= y[2]
         IN  <<b>> \o SeqOfBlocks(S \ {b})

\* Faulty variant of gathered_blocks: the lists are shared by the chunk tasks, so a task
\* also sees the blocks the tasks before it gathered.
gathered_blocks_shared(cands, cache) ==
    cands \o SeqOfBlocks(cache \ {cands[k] : k \in 1..Len(cands)})

\* The blocks whose points a chunk task gathers: blocks_azis, blocks_rngs and
\* blocks_idxs start empty in every call and take the selected blocks only.
gathered_blocks(cands, cache) == cands

\* block.reshape(-1) of azi, rng and idx for one block.
block_points(td, blk) ==
    [k \in 1..td.chunks[blk[2] + 1] |->
        LET cell == <<0, SumTo(td.chunks, blk[2]) + k - 1>>
        IN  [azi |-> PointAt(td, cell).azi, rng |-> PointAt(td, cell).rng,
             idx |-> AsUint(cell[2])]]

RECURSIVE concatenate(_, _)
\* np.concatenate over the gathered blocks.
concatenate(td, blocks) ==
    IF blocks = <<>> THEN <<>>
    ELSE block_points(td, Head(blocks)) \o concatenate(td, Tail(blocks))

Dist2(p, a, r) == (p.azi - a) * (p.azi - a) + (p.rng - r) * (p.rng - r)

\* Faulty variant of tree_query: the neighbour nearest in azimuth alone.
tree_query_azimuth(source, a, r) ==
    CHOOSE i \in 1..Len(source) :
        \A j \in 1..Len(source) :
            (source[i].azi - a) * (source[i].azi - a) <= (source[j].azi - a) * (source[j].azi - a)

\* cKDTree(source_yxs).query(target, k=1): the position of a nearest source point
\* (which one among equally near points is fixed by the tree, not by the caller).
tree_query(source, a, r) ==
    CHOOSE i \in 1..Len(source) :
        \A j \in 1..Len(source) : Dist2(source[i], a, r) <= Dist2(source[j], a, r)

\* Faulty variant of degenerate_chunk: the chunk is filled with index 0.
degenerate_chunk_zero(cells) == [cell \in cells |-> 0]

\* np.full(azi.shape, self.noindex)
degenerate_chunk(cells) == [cell \in cells |-> NoIndex]

\* calc_intf_ll2ra_matrix(azi, rng) once the blocks are gathered.
calc_intf_ll2ra_matrix(td, g, cells, blocks) ==
    IF Len(blocks) = 0 THEN degenerate_chunk(cells)
    ELSE LET source == concatenate(td, blocks)
         IN  [cell \in cells |->
                source[tree_query(source, YCoord(g, cell[1]), XCoord(g, cell[2]))].idx]

\* matrix_ra: the lazy matrix, chunk by chunk.
matrix_ra(td, g, ch) ==
    [cell \in RadarCells(g) |->
        LET c == CHOOSE c \in ChunkIds(ch) : cell \in ChunkCells(ch, c)
        IN  calc_intf_ll2ra_matrix(td, g, ChunkCells(ch, c),
                                   candidate_blocks(td, g, ch, c))[cell]]

\* intf_ll2ra_matrix_parallel(intf_grid, interactive): intf_ll2ra_matrix checks the
\* chunks and builds the lazy matrix; interactive returns it, otherwise the previous
\* artifact is removed, the file is created and the graph is handed to dask.persist.
intf_ll2ra_matrix_parallel(interactive) ==
    /\ pc = "idle"
    /\ call' = [op |-> "intf_ll2ra_matrix_parallel", interactive |-> interactive,
                grids |-> NoGrids]
    /\ LET ch == matrix_ra_chunks(intf_grid, chunksize)
       IN  IF ~chunks_equal(intf_grid.chunks, unify_chunks(intf_grid))
              \/ ~chunks_equal(intf_grid.chunks, ch)
           THEN /\ result' = [kind |-> "raised", error |-> "AssertionError"]
                /\ UNCHANGED <<file_ll2ra, pc, tasks, ready, prior>>
           ELSE IF interactive
           THEN /\ result' = [kind |-> "lazy", chunks |-> ch,
                              matrix |-> matrix_ra(trans_dat, intf_grid, ch)]
                /\ UNCHANGED <<file_ll2ra, pc, tasks, ready, prior>>
           ELSE /\ file_ll2ra' = to_netcdf(remove_existing(file_ll2ra))
                /\ prior' = [prior EXCEPT !.ll2ra = file_ll2ra]
                /\ tasks' = [c \in ChunkIds(ch) |-> TodoTask]
                /\ pc' = "persist_ll2ra"
                /\ ready' = ready \ {"intf_ll2ra"}
                /\ result' = [kind |-> "running", chunks |-> ch]
    /\ UNCHANGED <<intf_grid, trans_dat, chunksize, file_ra2ll, persisted>>

\* A chunk task up to the end of its loop over the selected blocks: each block is
\* computed with .persist() and appended to the task's lists.
ll2ra_chunk_gather(c) ==
    /\ pc = "persist_ll2ra"
    /\ tasks[c].st = "todo"
    /\ LET cands == candidate_blocks(trans_dat, intf_grid, result.chunks, c)
       IN  /\ tasks' = [tasks EXCEPT ![c] =
                          [st |-> "gathered", blocks |-> gathered_blocks(cands, persisted)]]
           /\ persisted' = persisted \cup {cands[k] : k \in 1..Len(cands)}
    /\ UNCHANGED <<intf_grid, trans_dat, chunksize, file_ra2ll, file_ll2ra, pc, call,
                   result, ready, prior>>

\* The rest of the chunk task: the tree is built and queried, and the chunk stored.
ll2ra_chunk_query(c) ==
    /\ pc = "persist_ll2ra"
    /\ tasks[c].st = "gathered"
    /\ file_ll2ra' = write_chunk(file_ll2ra, c,
                        calc_intf_ll2ra_matrix(trans_dat, intf_grid,
                            ChunkCells(result.chunks, c), tasks[c].blocks))
    /\ tasks' = [tasks EXCEPT ![c] = DoneTask]
    /\ UNCHANGED <<intf_grid, trans_dat, chunksize, file_ra2ll, pc, persisted, call,
                   result, ready, prior>>

\* tqdm_dask(dask.persist(delayed), desc='Build ll2ra Transform') returns.
ll2ra_persist_return ==
    /\ pc = "persist_ll2ra"
    /\ graph_completed(tasks)
    /\ pc' = "idle"
    /\ result' = [kind |-> "persisted"]
    /\ ready' = ready \cup {"intf_ll2ra"}
    /\ UNCHANGED <<intf_grid, trans_dat, chunksize, file_ra2ll, file_ll2ra, tasks,
                   persisted, call, prior>>

\* ------------------------------------------------------------- resampling
\* Layers lo..hi of a stack: the layers one dask block of the stack holds.
LayerBlock(grids, b) ==
    SubSeq(grids.layers, SumTo(grids.blocks, b - 1) + 1, SumTo(grids.blocks, b))

\* grid.reshape(-1)[f] for a block of layers of shape (rows, cols), row-major.
FlatRead(block, rows, cols, f) ==
    block[(f \div (rows * cols)) + 1][<<(f % (rows * cols)) \div cols, f % cols>>]

\* The helper check `not a in grids.dims and b in grid.dims`: with a among the
\* dims the first operand is False and the check is passed over; without it the
\* second operand is evaluated, and `grid` is not a name in scope there.
helper_check(dims, a, b) == IF a \in dims THEN "continue" ELSE "NameError"

\* ra2ll(grid): one block of layers gathered through matrix_ra2ll. The result is a
\* single (lat, lon) layer: reshape(-1) indexed by the 2-D index array, then
\* expand_dims('new').
ra2ll(block, matrix, rows, cols) ==
    LET valid_index == [cell \in DOMAIN matrix |->
                           IF matrix[cell] # NoIndex THEN matrix[cell] ELSE 0]
    IN  IF \E cell \in DOMAIN matrix : valid_index[cell] >= Len(block) * rows * cols
        THEN [ok |-> FALSE, layer |-> EmptyFn]
        ELSE [ok |-> TRUE,
              layer |-> [cell \in DOMAIN matrix |->
                            IF matrix[cell] # NoIndex
                            THEN FlatRead(block, rows, cols, valid_index[cell])
                            ELSE NaN]]

\* xr.apply_ufunc(f, grids.chunk(core dims -> -1), dask='parallelized'): f runs on
\* every block of the stack; the outputs follow each other along the stack.
apply_ufunc(grids, outs) ==
    IF \E b \in DOMAIN outs : ~outs[b].ok
    THEN [kind |-> "raised", error |-> "IndexError"]
    ELSE [kind |-> "grid",
          dims |-> (grids.dims \ {"y", "x", "lat", "lon"}),
          layers |-> [b \in DOMAIN outs |-> outs[b].layer]]

\* intf_ra2ll(grids): radar grid(s) resampled on the geographic raster.
intf_ra2ll(grids) ==
    /\ pc = "idle"
    /\ {"intf_ra2ll", "intf_ll2ra"} \subseteq ready
    /\ call' = [op |-> "intf_ra2ll", interactive |-> FALSE, grids |-> grids]
    /\ LET check == helper_check(grids.dims, "y", "x")
           matrix_ra2ll == open_matrix(file_ra2ll)
           outs == [b \in DOMAIN grids.blocks |->
                      ra2ll(LayerBlock(grids, b), matrix_ra2ll, intf_grid.ny, intf_grid.nx)]
       IN  result' =
             IF check = "return" THEN [kind |-> "unchanged", grids |-> grids]
             ELSE IF check = "NameError" THEN [kind |-> "raised", error |-> "NameError"]
             ELSE IF "x" \notin grids.dims THEN [kind |-> "raised", error |-> "ValueError"]
             ELSE LET out == apply_ufunc(grids, outs)
                  IN  IF out.kind = "grid"
                      THEN [out EXCEPT !.dims = @ \cup {"lat", "lon"}]
                      ELSE out
    /\ UNCHANGED <<intf_grid, trans_dat, chunksize, file_ra2ll, file_ll2ra, pc, tasks,
                   persisted, ready, prior>>

\* ll2ra(grid): one block of layers gathered through matrix_ll2ra, with no check
\* of the indices; the result is a single (y, x) layer.
ll2ra(block, matrix, rows, cols) ==
    IF \E cell \in DOMAIN matrix : matrix[cell] >= Len(block) * rows * cols
    THEN [ok |-> FALSE, layer |-> EmptyFn]
    ELSE [ok |-> TRUE,
          layer |-> [cell \in DOMAIN matrix |-> FlatRead(block, rows, cols, matrix[cell])]]

\* intf_ll2ra(grids): geographic grid(s) resampled on the radar grid.
intf_ll2ra(grids) ==
    /\ pc = "idle"
    /\ "intf_ll2ra" \in ready
    /\ call' = [op |-> "intf_ll2ra", interactive |-> FALSE, grids |-> grids]
    /\ LET check == helper_check(grids.dims, "lat", "lon")
           matrix_ll2ra == open_matrix(file_ll2ra)
           outs == [b \in DOMAIN grids.blocks |->
                      ll2ra(LayerBlock(grids, b), matrix_ll2ra, 1, Len(trans_dat.pts))]
       IN  result' =
             IF check = "return" THEN [kind |-> "unchanged", grids |-> grids]
             ELSE IF check = "NameError" THEN [kind |-> "raised", error |-> "NameError"]
             ELSE IF "lon" \notin grids.dims THEN [kind |-> "raised", error |-> "ValueError"]
             ELSE LET out == apply_ufunc(grids, outs)
                  IN  IF out.kind = "grid"
                      THEN [out EXCEPT !.dims = @ \cup {"y", "x"}]
                      ELSE out
    /\ UNCHANGED <<intf_grid, trans_dat, chunksize, file_ra2ll, file_ll2ra, pc, tasks,
                   persisted, ready, prior>>

\* ------------------------------------------------------------------ inputs
Grid(ny, nx, y0, dy, x0, dx, c) ==
    [ny |-> ny, nx |-> nx, y0 |-> y0, dy |-> dy, x0 |-> x0, dx |-> dx,
     chunks |-> <<Rechunk(ny, c), Rechunk(nx, c)>>]

Pt(a, r) == [valid |-> TRUE, azi |-> a, rng |-> r]
NaNPoint == [valid |-> FALSE, azi |-> 0, rng |-> 0]

\* Layers on the radar grid: all ones, and one whose value names its cell.
Ones(cells) == [cell \in cells |-> 1]
Ramp(cells, cols) == [cell \in cells |-> 2 + cell[1] * cols + cell[2]]

\* The grids handed to the resampling operations: single layers, stacks held one
\* layer per dask block or in one block, and grids lacking an expected axis.
LayerInputs(cells, cols, axes) ==
    {[dims |-> axes, layers |-> <<l>>, blocks |-> <<1>>] :
        l \in {Ones(cells), Ramp(cells, cols)}}
    \cup {[dims |-> axes \cup {"pair"}, layers |-> <<Ramp(cells, cols), Ones(cells)>>,
           blocks |-> b] : b \in {<<1, 1>>, <<2>>}}

GridInputs(g, td) ==
    LayerInputs(RadarCells(g), g.nx, {"y", "x"})
    \cup LayerInputs(GeoCells(td), Len(td.pts), {"lat", "lon"})
    \cup {[dims |-> {"pair", "y"}, layers |-> <<Ones(RadarCells(g))>>, blocks |-> <<1>>],
          [dims |-> {"pair", "lat"}, layers |-> <<Ones(GeoCells(td))>>, blocks |-> <<1>>]}

\* SpecRa2ll: the radar grids of the ra2ll builder. The first is the 4x4 grid with
\* unit cells and origin (0, 0); the second has as many cells as the index type
\* has values; the third has one row more; the last has cell size 2 and its origin
\* off zero.
RadarGridsRa2ll ==
    {Grid(4, 4, 0, 1, 0, 1, MaxChunk), Grid(2 ^ (IndexBits - 2), 4, 0, 1, 0, 1, MaxChunk),
     Grid(2 ^ (IndexBits - 2) + 1, 4, 0, 1, 0, 1, MaxChunk),
     Grid(3, 2, 1, 2, -1, 2, MaxChunk)}

PointsRa2ll ==
    {Pt(a, r) : a \in (-2)..MaxCoord, r \in (-2)..(MaxCoord \div 2)} \cup {NaNPoint}

\* Four points at radar coordinates (0,0), (0,3), (3,0), (3,3) and two cells
\* without radar coordinates.
ExampleTransDat ==
    [pts |-> <<Pt(0, 0), NaNPoint, Pt(0, 3), Pt(3, 0), NaNPoint, Pt(3, 3)>>,
     chunks |-> <<3, 3>>]

\* One cell sweeps the coordinate range, the other is one of three fixed points.
TransDatsRa2ll ==
    {[pts |-> <<p, q>>, chunks |-> c] :
        p \in PointsRa2ll, q \in {NaNPoint, Pt(0, 0), Pt(2, 1)}, c \in {<<2>>, <<1, 1>>}}
    \cup {ExampleTransDat}

\* The ll2ra artifact of an earlier geocode_parallel run on the same radar grid;
\* intf_ra2ll reads its y/x coordinates only, which are intf_grid's.
EarlierLl2ra == NewFile

InitRa2ll ==
    /\ intf_grid \in RadarGridsRa2ll
    /\ trans_dat \in TransDatsRa2ll
    /\ chunksize = MaxChunk
    /\ file_ra2ll \in {AbsentFile, PriorFile}
    /\ file_ll2ra = EarlierLl2ra
    /\ pc = "idle"
    /\ tasks = EmptyFn
    /\ persisted = {}
    /\ call = [op |-> "none", interactive |-> FALSE, grids |-> NoGrids]
    /\ result = [kind |-> "none"]
    /\ ready = {"intf_ll2ra"}
    /\ prior = [ra2ll |-> file_ra2ll, ll2ra |-> file_ll2ra]

NextRa2ll ==
    \/ \E interactive \in BOOLEAN : intf_ra2ll_matrix_parallel(interactive)
    \/ \E blk \in BlockIds(trans_dat) : ra2ll_chunk_task(blk)
    \/ ra2ll_persist_return
    \/ \E grids \in GridInputs(intf_grid, trans_dat) : intf_ra2ll(grids)

SpecRa2ll == InitRa2ll /\ [][NextRa2ll]_vars

\* ================================================================= claims
\* The ra2ll matrices a caller can see: the lazy matrix an interactive call
\* returned, and the persisted artifact read back.
Ra2llMatrices ==
    (IF call.op = "intf_ra2ll_matrix_parallel" /\ result.kind = "lazy"
     THEN {result.matrix} ELSE {})
    \cup (IF "intf_ra2ll" \in ready THEN {open_matrix(file_ra2ll)} ELSE {})

\* ry and rx of the specification, in unbounded arithmetic.
Ry(p, g) == RoundHalfEven(p.azi - g.y0, g.dy)
Rx(p, g) == RoundHalfEven(p.rng - g.x0, g.dx)
InRange(p, g) ==
    p.valid /\ 0 <= Ry(p, g) /\ Ry(p, g) < g.ny /\ 0 <= Rx(p, g) /\ Rx(p, g) < g.nx

CellsAreIndexOrSentinel(m) ==
    /\ DOMAIN m = GeoCells(trans_dat)
    /\ \A cell \in GeoCells(trans_dat) :
          m[cell] = NoIndex \/ (0 <= m[cell] /\ m[cell] < intf_grid.nx * intf_grid.ny)

InRangeIsNeverSentinel(m) ==
    \A cell \in GeoCells(trans_dat) :
        InRange(PointAt(trans_dat, cell), intf_grid)
            => m[cell] # NoIndex /\ 0 <= m[cell] /\ m[cell] < intf_grid.nx * intf_grid.ny

\* C1 (as stated): for every radar grid, every cell of the ra2ll matrix is NO_INDEX
\* or a flat index in [0, W*H), and the index of an in-range point is never NO_INDEX.
C1_AsStated ==
    \A m \in Ra2llMatrices : CellsAreIndexOrSentinel(m) /\ InRangeIsNeverSentinel(m)

\* C1 (what the code does guarantee): every cell of the ra2ll matrix is NO_INDEX
\* or a flat index in [0, W*H); when the grid has at most NO_INDEX cells
\* (W*H <= 2^32 - 1), the index of an in-range point is never NO_INDEX.
C1_IndexOrSentinel ==
    \A m \in Ra2llMatrices :
        /\ CellsAreIndexOrSentinel(m)
        /\ intf_grid.nx * intf_grid.ny <= NoIndex => InRangeIsNeverSentinel(m)

\* A persisted matrix with an in-range point (a valid index) next to a point with
\* coordinates off the grid (the sentinel).
C1_Witness ==
    /\ "intf_ra2ll" \in ready
    /\ intf_grid.nx * intf_grid.ny <= NoIndex
    /\ \E c1, c2 \in GeoCells(trans_dat) :
          /\ InRange(PointAt(trans_dat, c1), intf_grid)
          /\ open_matrix(file_ra2ll)[c1] < intf_grid.nx * intf_grid.ny
          /\ PointAt(trans_dat, c2).valid
          /\ ~InRange(PointAt(trans_dat, c2), intf_grid)
          /\ open_matrix(file_ra2ll)[c2] = NoIndex

CellsFollowTheFormula(m) ==
    /\ DOMAIN m = GeoCells(trans_dat)
    /\ \A cell \in GeoCells(trans_dat) :
          LET p == PointAt(trans_dat, cell)
          IN  m[cell] = IF InRange(p, intf_grid)
                        THEN Ry(p, intf_grid) * intf_grid.nx + Rx(p, intf_grid)
                        ELSE NoIndex

IsExampleGrid(g) ==
    g.ny = 4 /\ g.nx = 4 /\ g.y0 = 0 /\ g.x0 = 0 /\ g.dy = 1 /\ g.dx = 1

ExampleCells(m) ==
    IsExampleGrid(intf_grid) /\ trans_dat = ExampleTransDat
        => /\ m[<<0, 0>>] = 0
           /\ m[<<0, 2>>] = 3
           /\ m[<<0, 3>>] = 12
           /\ m[<<0, 5>>] = 15
           /\ m[<<0, 1>>] = NoIndex
           /\ m[<<0, 4>>] = NoIndex

\* C2 (as stated): the cell of point p is ry*width + rx when 0 <= ry < height and
\* 0 <= rx < width, and NO_INDEX otherwise; the 4x4 example gives 0, 3, 12, 15.
C2_AsStated ==
    \A m \in Ra2llMatrices : CellsFollowTheFormula(m) /\ ExampleCells(m)

\* C2 (what the code does guarantee): the same, for a radar grid whose flat
\* indices fit the index type (W*H <= 2^32).
C2_Formula ==
    \A m \in Ra2llMatrices :
        /\ intf_grid.nx * intf_grid.ny <= Modulus => CellsFollowTheFormula(m)
        /\ ExampleCells(m)

\* The 4x4 example persisted: the corner point (3,3) holds flat index 15.
C2_Witness ==
    /\ "intf_ra2ll" \in ready
    /\ IsExampleGrid(intf_grid)
    /\ trans_dat = ExampleTransDat
    /\ open_matrix(file_ra2ll)[<<0, 5>>] = 15

\* ---------------------------------------------------------- SpecLl2ra, Spec
\* The chunkings an intf_grid comes with: none (not a dask array), the regular
\* ones, and one that is not regular.
IntfChunkings(ny, nx) ==
    {<<>>, <<<<1, ny - 1>>, <<nx>>>>}
    \cup {<<Rechunk(ny, c), Rechunk(nx, c)>> : c \in 1..MaxChunk}

UnitGrids(ny, nx) ==
    {[ny |-> ny, nx |-> nx, y0 |-> 0, dy |-> 1, x0 |-> 0, dx |-> 1, chunks |-> ch] :
        ch \in IntfChunkings(ny, nx)}

RadarGridsLl2ra == UnitGrids(2, 4) \cup UnitGrids(3, 3)

PointsLl2ra == {Pt(a, r) : a \in {0, 2}, r \in 0..2}

TransDatsLl2ra ==
    {[pts |-> <<p, q>>, chunks |-> c] :
        p \in PointsLl2ra, q \in PointsLl2ra, c \in {<<2>>, <<1, 1>>}}

InitLl2ra ==
    /\ intf_grid \in RadarGridsLl2ra
    /\ trans_dat \in TransDatsLl2ra
    /\ chunksize \in 2..MaxChunk
    /\ file_ra2ll = AbsentFile
    /\ file_ll2ra \in {AbsentFile, PriorFile}
    /\ pc = "idle"
    /\ tasks = EmptyFn
    /\ persisted = {}
    /\ call = [op |-> "none", interactive |-> FALSE, grids |-> NoGrids]
    /\ result = [kind |-> "none"]
    /\ ready = {}
    /\ prior = [ra2ll |-> file_ra2ll, ll2ra |-> file_ll2ra]

NextLl2ra ==
    \/ \E interactive \in BOOLEAN : intf_ll2ra_matrix_parallel(interactive)
    \/ \E c \in DOMAIN tasks : ll2ra_chunk_gather(c)
    \/ \E c \in DOMAIN tasks : ll2ra_chunk_query(c)
    \/ ll2ra_persist_return
    \/ \E grids \in GridInputs(intf_grid, trans_dat) : intf_ll2ra(grids)

SpecLl2ra == InitLl2ra /\ [][NextLl2ra]_vars

\* ----------------------------------------------------------- ll2ra claims
\* The ll2ra matrices a caller can see, each with its chunking.
Ll2raMatrices ==
    (IF call.op = "intf_ll2ra_matrix_parallel" /\ result.kind = "lazy"
     THEN {result.matrix} ELSE {})
    \cup (IF "intf_ll2ra" \in ready THEN {open_matrix(file_ll2ra)} ELSE {})

\* The chunking of the persisted artifact, read off the chunks stored in it.
FileLayoutIs(file, ch) ==
    /\ DOMAIN file.chunks = ChunkIds(ch)
    /\ \A c \in ChunkIds(ch) : DOMAIN file.chunks[c].val = ChunkCells(ch, c)

Ll2raCalled == call.op = "intf_ll2ra_matrix_parallel"

ChunksAlignedOrRaised ==
    /\ Ll2raCalled /\ result.kind \in {"lazy", "running"}
          => result.chunks = intf_grid.chunks
    /\ "intf_ll2ra" \in ready => FileLayoutIs(file_ll2ra, intf_grid.chunks)
    /\ Ll2raCalled /\ intf_grid.chunks # <<Rechunk(intf_grid.ny, chunksize),
                                          Rechunk(intf_grid.nx, chunksize)>>
          => result.kind = "raised" /\ pc = "idle"

RaisedBeforeAnyFileChange ==
    Ll2raCalled' /\ result'.kind = "raised" => file_ll2ra' = file_ll2ra

\* C5: intf_ll2ra_matrix returns a matrix chunked exactly as intf_grid or raises;
\* it raises whenever intf_grid's chunks differ from those self.chunksize gives,
\* and it raises before the artifact is deleted or written.
C5_ChunkAlignment == [](ChunksAlignedOrRaised) /\ [][RaisedBeforeAnyFileChange]_vars

\* A build on an intf_grid chunked otherwise than self.chunksize chunks it raised
\* and left the previous artifact in place.
C5_Witness ==
    /\ Ll2raCalled
    /\ ~call.interactive
    /\ intf_grid.chunks # <<>>
    /\ result.kind = "raised"
    /\ file_ll2ra = PriorFile

\* The claim's test of a chunk: closed intervals [lo1, hi1] and [lo2, hi2] meet.
Meets(lo1, hi1, lo2, hi2) == Max({lo1, lo2}) <= Min({hi1, hi2})

BlockAzis(td, blk) == {PointAt(td, cell).azi : cell \in BlockCells(td, blk)}
BlockRngs(td, blk) == {PointAt(td, cell).rng : cell \in BlockCells(td, blk)}

\* The blocks whose extent, widened by one cell, meets the bounding box of chunk c.
IntersectingBlocks(c) ==
    LET ys == {YCoord(intf_grid, i) : i \in ChunkRows(intf_grid.chunks, c)}
        xs == {XCoord(intf_grid, j) : j \in ChunkCols(intf_grid.chunks, c)}
    IN  {blk \in BlockIds(trans_dat) :
            /\ Meets(Min(BlockAzis(trans_dat, blk)) - 1, Max(BlockAzis(trans_dat, blk)) + 1,
                     Min(ys), Max(ys))
            /\ Meets(Min(BlockRngs(trans_dat, blk)) - 1, Max(BlockRngs(trans_dat, blk)) + 1,
                     Min(xs), Max(xs))}

Degenerate(c) == IntersectingBlocks(c) = {}

\* C6: a chunk that no block extent (widened by one cell) meets comes out with the
\* chunk's shape, filled with NO_INDEX, the build does not raise, and the other
\* chunks hold indices of TransformDataset cells.
C6_DegenerateChunk ==
    /\ \A m \in Ll2raMatrices :
          /\ DOMAIN m = RadarCells(intf_grid)
          /\ \A c \in ChunkIds(intf_grid.chunks) :
                \A cell \in ChunkCells(intf_grid.chunks, c) :
                    IF Degenerate(c) THEN m[cell] = NoIndex
                    ELSE m[cell] \in 0..(Len(trans_dat.pts) - 1)
    /\ pc = "persist_ll2ra" =>
          \A c \in DOMAIN tasks :
              tasks[c].st = "done" /\ Degenerate(c)
                  => file_ll2ra.chunks[c].val =
                        [cell \in ChunkCells(intf_grid.chunks, c) |-> NoIndex]
    /\ Ll2raCalled /\ intf_grid.chunks = matrix_ra_chunks(intf_grid, chunksize)
          => result.kind # "raised"

\* A persisted matrix with a degenerate chunk next to a chunk that is not.
C6_Witness ==
    /\ "intf_ll2ra" \in ready
    /\ \E c1, c2 \in ChunkIds(intf_grid.chunks) :
          /\ Degenerate(c1)
          /\ \A cell \in ChunkCells(intf_grid.chunks, c1) :
                open_matrix(file_ll2ra)[cell] = NoIndex
          /\ ~Degenerate(c2)
          /\ \A cell \in ChunkCells(intf_grid.chunks, c2) :
                open_matrix(file_ll2ra)[cell] < Len(trans_dat.pts)

\* The candidate points of chunk c: the cells of all blocks that meet it.
CandidateCells(c) == UNION {BlockCells(trans_dat, blk) : blk \in IntersectingBlocks(c)}

CellDist2(k, cell) ==
    Dist2(PointAt(trans_dat, k), YCoord(intf_grid, cell[1]), XCoord(intf_grid, cell[2]))

\* C7: in a chunk that is not degenerate, every cell holds the idx of a point that
\* is nearest to the cell among all points of all blocks meeting the chunk.
C7_Nearest ==
    \A m \in Ll2raMatrices :
        \A c \in ChunkIds(intf_grid.chunks) :
            ~Degenerate(c) =>
                \A cell \in ChunkCells(intf_grid.chunks, c) :
                    \E k \in CandidateCells(c) :
                        /\ m[cell] = k[2]
                        /\ \A j \in CandidateCells(c) : CellDist2(k, cell) <= CellDist2(j, cell)

\* A persisted matrix where a cell took its neighbour from the second of two
\* candidate blocks, the first block's point being strictly farther.
C7_Witness ==
    /\ "intf_ll2ra" \in ready
    /\ \E c \in ChunkIds(intf_grid.chunks) :
          /\ IntersectingBlocks(c) = {<<0, 0>>, <<0, 1>>}
          /\ \E cell \in ChunkCells(intf_grid.chunks, c) :
                /\ open_matrix(file_ll2ra)[cell] = 1
                /\ CellDist2(<<0, 1>>, cell) < CellDist2(<<0, 0>>, cell)

\* The matrix as a function of the inputs alone.
ReferenceChunk(c) ==
    calc_intf_ll2ra_matrix(trans_dat, intf_grid, ChunkCells(intf_grid.chunks, c),
                           candidate_blocks(trans_dat, intf_grid, intf_grid.chunks, c))

\* C9: whatever the order and interleaving of the chunk tasks, a finished task has
\* stored its own chunk as the inputs alone determine it, an unfinished one has
\* stored nothing, and the finished build is one and the same matrix.
C9_Deterministic ==
    /\ pc = "persist_ll2ra" =>
          /\ DOMAIN file_ll2ra.chunks = {c \in DOMAIN tasks : tasks[c].st = "done"}
          /\ \A c \in DOMAIN file_ll2ra.chunks :
                file_ll2ra.chunks[c].val = ReferenceChunk(c)
    /\ "intf_ll2ra" \in ready =>
          /\ DOMAIN file_ll2ra.chunks = ChunkIds(intf_grid.chunks)
          /\ \A c \in ChunkIds(intf_grid.chunks) :
                file_ll2ra.chunks[c].val = ReferenceChunk(c)

\* Two chunk tasks in flight at once, the later chunk already stored while the
\* earlier one has only gathered its blocks.
C9_Witness ==
    /\ pc = "persist_ll2ra"
    /\ \E c1, c2 \in DOMAIN tasks :
          /\ c1[2] < c2[2]
          /\ tasks[c1].st = "gathered"
          /\ tasks[c2].st = "done"
          /\ c2 \in DOMAIN file_ll2ra.chunks

\* C10 (as stated): every cell of every ll2ra matrix the builder produces is an
\* index of a TransformDataset cell, never NO_INDEX, so intf_ll2ra's gather of a
\* geographic grid reads in range.
C10_AsStated ==
    /\ \A m \in Ll2raMatrices :
          \A cell \in DOMAIN m : m[cell] # NoIndex /\ m[cell] \in 0..(Len(trans_dat.pts) - 1)
    /\ call.op = "intf_ll2ra" /\ {"lat", "lon"} \subseteq call.grids.dims
          => result.kind = "grid"

\* -------------------------------------------------------------------- Spec
\* Both builders, both persists and both resampling operations on one scene.
TransDatsSpec ==
    {[pts |-> <<p, q>>, chunks |-> <<1, 1>>] :
        p \in PointsLl2ra, q \in {Pt(0, 0), Pt(2, 2)}}

Init ==
    /\ \E c \in 2..MaxChunk : intf_grid = Grid(2, 4, 0, 1, 0, 1, c)
    /\ trans_dat \in TransDatsSpec
    /\ chunksize \in 2..MaxChunk
    /\ file_ra2ll \in {AbsentFile, PriorFile}
    /\ file_ll2ra \in {AbsentFile, PriorFile}
    /\ pc = "idle"
    /\ tasks = EmptyFn
    /\ persisted = {}
    /\ call = [op |-> "none", interactive |-> FALSE, grids |-> NoGrids]
    /\ result = [kind |-> "none"]
    /\ ready = {}
    /\ prior = [ra2ll |-> file_ra2ll, ll2ra |-> file_ll2ra]

Next ==
    \/ \E interactive \in BOOLEAN : intf_ra2ll_matrix_parallel(interactive)
    \/ \E blk \in DOMAIN tasks : ra2ll_chunk_task(blk)
    \/ ra2ll_persist_return
    \/ \E interactive \in BOOLEAN : intf_ll2ra_matrix_parallel(interactive)
    \/ \E c \in DOMAIN tasks : ll2ra_chunk_gather(c)
    \/ \E c \in DOMAIN tasks : ll2ra_chunk_query(c)
    \/ ll2ra_persist_return
    \/ \E grids \in GridInputs(intf_grid, trans_dat) : intf_ra2ll(grids)
    \/ \E grids \in GridInputs(intf_grid, trans_dat) : intf_ll2ra(grids)

Spec == Init /\ [][Next]_vars

\* --------------------------------------------------- resampling, persistence
HasAxes(grids, axes) == axes \subseteq grids.dims

\* flattened(grid)[v] for one layer on the radar grid.
FlatLayer(layer, v) == layer[<<v \div intf_grid.nx, v % intf_grid.nx>>]

\* C3 (as stated): intf_ra2ll returns, for every stacked layer and every cell, NaN
\* where the matrix holds NO_INDEX and flattened(layer)[matrix[cell]] elsewhere; an
\* all-ones layer comes out 1 exactly where the matrix is not NO_INDEX.
C3_AsStated ==
    call.op = "intf_ra2ll" /\ HasAxes(call.grids, {"y", "x"}) =>
        /\ result.kind = "grid"
        /\ Len(result.layers) = Len(call.grids.layers)
        /\ \A l \in 1..Len(call.grids.layers) :
              \A cell \in GeoCells(trans_dat) :
                  LET v == open_matrix(file_ra2ll)[cell]
                  IN  result.layers[l][cell] =
                        IF v = NoIndex THEN NaN ELSE FlatLayer(call.grids.layers[l], v)

\* C4 (as stated): a grid without the expected axes ('y' and 'x' for intf_ra2ll,
\* 'lat' and 'lon' for intf_ll2ra) is returned unchanged and nothing is raised.
C4_AsStated ==
    /\ call.op = "intf_ra2ll" /\ ~HasAxes(call.grids, {"y", "x"})
          => result.kind = "unchanged" /\ result.grids = call.grids
    /\ call.op = "intf_ll2ra" /\ ~HasAxes(call.grids, {"lat", "lon"})
          => result.kind = "unchanged" /\ result.grids = call.grids

\* The artifact a finished build of a matrix holds, chunk by chunk.
CompleteRa2ll ==
    [exists |-> TRUE,
     chunks |-> [blk \in BlockIds(trans_dat) |->
                   [val |-> [cell \in BlockCells(trans_dat, blk) |->
                                matrix_ll_cell(PointAt(trans_dat, cell), intf_grid)],
                    old |-> FALSE]]]
CompleteLl2ra ==
    [exists |-> TRUE,
     chunks |-> [c \in ChunkIds(intf_grid.chunks) |->
                   [val |-> ReferenceChunk(c), old |-> FALSE]]]

NoOldChunk(file) == \A c \in DOMAIN file.chunks : ~file.chunks[c].old

\* C8: in non-interactive mode the previous artifact is gone before the first chunk
\* is written (the file being written holds chunks of the new matrix only), the
\* persist returns only once every chunk is stored, and a build over the artifact
\* of an earlier build from the same inputs leaves a value-identical artifact.
C8_DeleteThenWrite ==
    /\ pc = "persist_ra2ll" =>
          /\ NoOldChunk(file_ra2ll)
          /\ DOMAIN file_ra2ll.chunks = {c \in DOMAIN tasks : tasks[c].st = "done"}
    /\ pc = "persist_ll2ra" =>
          /\ NoOldChunk(file_ll2ra)
          /\ DOMAIN file_ll2ra.chunks = {c \in DOMAIN tasks : tasks[c].st # "todo"
                                                              /\ tasks[c].st # "gathered"}
    /\ "intf_ra2ll" \in ready =>
          /\ file_ra2ll = CompleteRa2ll
          /\ prior.ra2ll = CompleteRa2ll => open_matrix(file_ra2ll) = open_matrix(prior.ra2ll)
    /\ "intf_ll2ra" \in ready =>
          /\ file_ll2ra = CompleteLl2ra
          /\ prior.ll2ra = CompleteLl2ra => open_matrix(file_ll2ra) = open_matrix(prior.ll2ra)

\* Both matrices built and persisted a second time over the artifacts of the first
\* build, the very first build having found an artifact of another scene.
C8_Witness ==
    /\ {"intf_ra2ll", "intf_ll2ra"} \subseteq ready
    /\ pc = "idle"
    /\ prior.ra2ll = CompleteRa2ll
    /\ prior.ll2ra = CompleteLl2ra
    /\ file_ra2ll = prior.ra2ll
    /\ file_ll2ra = prior.ll2ra
    /\ Cardinality(DOMAIN file_ll2ra.chunks) > 1
    /\ Cardinality(DOMAIN file_ra2ll.chunks) > 1

====
